---- MODULE Spec2Model ----
(***************************************************************************)
(* Model of the tiny-clean output-encoding library:                        *)
(*   common.rs              char_mask / char_bucket / hex rendering        *)
(*   encoder.rs             Rule, RuleType, compile_encoder_rules          *)
(*   java_script_encoder.rs JavaScriptEncoder::create / encode             *)
(*   uri_encoder.rs         UriEncoder::new / encode                       *)
(*   xml_encoder.rs         XmlEncoder::new / encode                       *)
(*                                                                         *)
(* A char is its Unicode scalar value (an integer).  A String is the       *)
(* sequence of its chars.  A u32 mask word is the set of the positions of  *)
(* its one-bits (0 = least significant), so  &  is \cap,  |  is \cup and   *)
(* !  is the complement in 0..31.                                          *)
(***************************************************************************)
EXTENDS Integers, Sequences, FiniteSets, TLC

VARIABLES encoder,            \* which encoder was constructed: "js" | "uri" | "xml"
          mode,               \* the mode given to create / new
          rules,              \* JavaScriptEncoder.rules (CompiledEncoderRules)
          escape_char,        \* JavaScriptEncoder.escape_char
          invalid_char,       \* JavaScriptEncoder.invalid_char
          ascii_properties,   \* JavaScriptEncoder.ascii_properties
          valid_masks,        \* UriEncoder.valid_masks / XmlEncoder.valid_masks
          input,              \* the &str argument of the running encode call
          idx,                \* position of input.chars() (1-based, next char)
          output,             \* the String being built by the call
          pc,                 \* "new" | "idle" | "loop" | "done" | "panic"
          calls,              \* the number of encode calls the first caller has made
          rule_array,         \* the [Rule; B] argument of compile_encoder_rules
          panic_msg,          \* the message of the panic, "" while there was none
          input2,             \* a second caller sharing &self: its input,
          idx2,               \*   its position in input.chars(),
          output2,            \*   its own output String
          pc2,                \*   and its position in encode
          input_len,          \* input.len(): the byte length of the first caller's input
          init_capacity       \* the capacity its output String was created with

vars == <<encoder, mode, rules, escape_char, invalid_char, ascii_properties,
          valid_masks, input, idx, output, pc, calls, rule_array, panic_msg,
          input2, idx2, output2, pc2, input_len, init_capacity>>

reserve == <<input_len, init_capacity>>

caller2 == <<input2, idx2, output2, pc2>>

config == <<encoder, mode, rules, escape_char, invalid_char, ascii_properties,
            valid_masks>>

----------------------------------------------------------------------------
(* Bounds of the model *)

\* longest multi-character input string
MaxLen == 2
\* number of evenly spaced code points sampled over the whole scalar range
NumSamples == 64

----------------------------------------------------------------------------
(* Integer helpers for the u32 arithmetic done on code points *)

RECURSIVE BitAnd(_, _)
BitAnd(a, b) ==
    IF a = 0 \/ b = 0 THEN 0
    ELSE (a % 2) * (b % 2) + 2 * BitAnd(a \div 2, b \div 2)

RECURSIVE BitOr(_, _)
BitOr(a, b) ==
    IF a = 0 THEN b
    ELSE IF b = 0 THEN a
    ELSE (IF a % 2 = 1 \/ b % 2 = 1 THEN 1 ELSE 0) + 2 * BitOr(a \div 2, b \div 2)

Shr(a, n) == a \div (2 ^ n)

\* the mask word of a number below 2^31
Word(n) == {i \in 0..30 : (n \div (2 ^ i)) % 2 = 1}

\* w << k on a 32-bit word
WordShl(w, k) == {i + k : i \in w} \cap (0..31)

\* !w on a 32-bit word
WordNot(w) == (0..31) \ w

\* u32::MAX as a mask word
U32_MAX_WORD == 0..31

IsScalar(c) == c \in 0..1114111 /\ ~(c \in 55296..57343)

----------------------------------------------------------------------------
(* common.rs *)

HEX_SHIFT == 4
HEX_MASK == 15

\* "0123456789abcdef"
HEX == <<48, 49, 50, 51, 52, 53, 54, 55, 56, 57, 97, 98, 99, 100, 101, 102>>
\* "0123456789ABCDEF"
U_HEX == <<48, 49, 50, 51, 52, 53, 54, 55, 56, 57, 65, 66, 67, 68, 69, 70>>

\* the value pushed for an out-of-bounds table index (the call panics)
OOB == 0 - 1

\* tbl[i] with Rust's bounds check (0-based index)
TableAt(tbl, i) == IF i >= 0 /\ i < Len(tbl) THEN tbl[i + 1] ELSE OOB

char_mask(c) == {BitAnd(c, 31)}

\* mutant: the bucket taken as c >> 4
char_bucket_Shift4(c) == Shr(c, 4)

char_bucket(c) == Shr(c, 5)

encode_as_hex_byte(esc, c) ==
    <<esc, 120,
      TableAt(HEX, Shr(c, HEX_SHIFT)),
      TableAt(HEX, BitAnd(c, HEX_MASK))>>

\* mutant: the two high nibbles pushed in the wrong order
encode_as_unicode_Swapped(esc, c) ==
    <<esc, 117,
      TableAt(HEX, BitAnd(Shr(c, 2 * HEX_SHIFT), HEX_MASK)),
      TableAt(HEX, BitAnd(Shr(c, 3 * HEX_SHIFT), HEX_MASK)),
      TableAt(HEX, BitAnd(Shr(c, 1 * HEX_SHIFT), HEX_MASK)),
      TableAt(HEX, BitAnd(c, HEX_MASK))>>

encode_as_unicode(esc, c) ==
    <<esc, 117,
      TableAt(HEX, BitAnd(Shr(c, 3 * HEX_SHIFT), HEX_MASK)),
      TableAt(HEX, BitAnd(Shr(c, 2 * HEX_SHIFT), HEX_MASK)),
      TableAt(HEX, BitAnd(Shr(c, 1 * HEX_SHIFT), HEX_MASK)),
      TableAt(HEX, BitAnd(c, HEX_MASK))>>

----------------------------------------------------------------------------
(* encoder.rs: the rule model *)

\* RuleType::Esc { min, simple }
Esc(min, simple) == [tag |-> "Esc", min |-> min, simple |-> simple, str |-> <<>>]

\* RuleType::Sub(&'static str)
Sub(s) == [tag |-> "Sub", min |-> FALSE, simple |-> FALSE, str |-> s]

\* Rule::Uni { ch, rt }
Uni(ch, rt) ==
    [kind |-> "Uni", ch |-> ch, start_character |-> ch, end_character |-> ch,
     exclude |-> {}, rt |-> rt]

\* Rule::Range { start_character, end_character, exclude, rule_type };
\* exclude: None and Some(vec![]) both exclude nothing
Range(start, end, exclude, rt) ==
    [kind |-> "Range", ch |-> start, start_character |-> start,
     end_character |-> end, exclude |-> exclude, rt |-> rt]

\* EncodeOption { min_len, simple_escape }
EncodeOption(min_len, simple_escape) ==
    [min_len |-> min_len, simple_escape |-> simple_escape]

\* FnvHashMap::insert of the same value for every key of ks
MapInsertAll(m, ks, v) ==
    [x \in (DOMAIN m) \cup ks |-> IF x \in ks THEN v ELSE m[x]]

Max(a, b) == IF a >= b THEN a ELSE b

\* str::len(): the UTF-8 byte length of a string
Utf8Len(c) == IF c < 128 THEN 1 ELSE IF c < 2048 THEN 2 ELSE IF c < 65536 THEN 3 ELSE 4

RECURSIVE StrLen(_)
StrLen(s) == IF s = <<>> THEN 0 ELSE Utf8Len(Head(s)) + StrLen(Tail(s))

\* the locals of compile_encoder_rules before its loop
CompileStart ==
    [valid_mask |-> [b \in 0..7 |-> U32_MAX_WORD],
     replace_chars |-> <<>>,
     encode_chars |-> <<>>,
     largest_replace |-> 1,
     panicked |-> FALSE,
     panic_msg |-> ""]

\* mutant: the whole word of the bucket cleared
ClearBits_Bucket(st, cs) ==
    IF \E c \in cs : char_bucket(c) \notin DOMAIN st.valid_mask
    THEN [st EXCEPT !.panicked = TRUE, !.panic_msg = "index out of bounds"]
    ELSE [st EXCEPT !.valid_mask =
            [b \in DOMAIN st.valid_mask |->
                IF \E x \in cs : char_bucket(x) = b THEN {} ELSE st.valid_mask[b]]]

\* valid_mask[bucket] &= !char_mask(c), for every c of cs; the index is bounds-checked
ClearBits(st, cs) ==
    IF \E c \in cs : char_bucket(c) \notin DOMAIN st.valid_mask
    THEN [st EXCEPT !.panicked = TRUE, !.panic_msg = "index out of bounds"]
    ELSE [st EXCEPT !.valid_mask =
            [b \in DOMAIN st.valid_mask |->
                st.valid_mask[b] \cap
                    WordNot(UNION {char_mask(c) : c \in {x \in cs : char_bucket(x) = b}})]]

\* mutant: the loop taken over start..=end
RangeChars_Incl(r) ==
    {c \in r.start_character..r.end_character :
        IsScalar(c) /\ c \notin r.exclude}

\* the chars a `for char in start..end` loop visits and does not skip
RangeChars(r) ==
    {c \in r.start_character..(r.end_character - 1) :
        IsScalar(c) /\ c \notin r.exclude}

\* encode_chars.insert(c, EncodeOption {..}) for every c of cs
PutEsc(st, cs, rt) ==
    [st EXCEPT !.encode_chars =
        MapInsertAll(st.encode_chars, cs, EncodeOption(rt.min, rt.simple))]

\* mutant: the running maximum left as it is
PutSub_NoMax(st, cs, rt) ==
    IF cs = {} THEN st
    ELSE [st EXCEPT !.replace_chars = MapInsertAll(st.replace_chars, cs, rt.str)]

\* largest_replace = largest_replace.max(len); replace_chars.insert(c, s) for every c of cs
PutSub(st, cs, rt) ==
    IF cs = {} THEN st
    ELSE [st EXCEPT !.largest_replace = Max(st.largest_replace, StrLen(rt.str)),
                    !.replace_chars = MapInsertAll(st.replace_chars, cs, rt.str)]

\* mutant: the assertion with <= for <
RangeAssert_Le(r) == r.start_character <= r.end_character

\* assert!((start as u32) < (end as u32))
RangeAssert(r) == r.start_character < r.end_character

\* one iteration of `for rule in rules`
CompileRule(st, r) ==
    IF st.panicked THEN st
    ELSE IF r.kind = "Range" THEN
        IF ~RangeAssert(r)
        THEN [st EXCEPT !.panicked = TRUE, !.panic_msg = "assertion failed"]
        ELSE IF r.start_character < 256 /\ r.end_character < 256
        THEN IF r.rt.tag = "Esc"
             THEN PutEsc(ClearBits(st, RangeChars(r)), RangeChars(r), r.rt)
             ELSE PutSub(ClearBits(st, RangeChars(r)), RangeChars(r), r.rt)
        ELSE IF r.rt.tag = "Esc"
             THEN PutEsc(st, RangeChars(r), r.rt)
             ELSE PutSub(st, RangeChars(r), r.rt)
    ELSE
        IF r.ch <= 256
        THEN IF ClearBits(st, {r.ch}).panicked
             THEN ClearBits(st, {r.ch})
             ELSE IF r.rt.tag = "Esc"
                  THEN PutEsc(ClearBits(st, {r.ch}), {r.ch}, r.rt)
                  ELSE PutSub(ClearBits(st, {r.ch}), {r.ch}, r.rt)
        ELSE IF r.rt.tag = "Esc"
             THEN PutEsc(st, {r.ch}, r.rt)
             ELSE PutSub(st, {r.ch}, r.rt)

RECURSIVE CompileLoop(_, _)
CompileLoop(st, rs) ==
    IF rs = <<>> THEN st ELSE CompileLoop(CompileRule(st, Head(rs)), Tail(rs))

\* the set of chars given the Invalidate action; the compiler of encoder.rs
\* has no such rule, so the set stays empty
invalid_set_of(rs) == {}

\* Encoder::compile_encoder_rules
compile_encoder_rules(rs) ==
    [valid_ascii_mask |-> CompileLoop(CompileStart, rs).valid_mask,
     replace_map |-> CompileLoop(CompileStart, rs).replace_chars,
     encode_map |-> CompileLoop(CompileStart, rs).encode_chars,
     invalid_set |-> invalid_set_of(rs),
     output_buffer_max_len |-> CompileLoop(CompileStart, rs).largest_replace,
     panicked |-> CompileLoop(CompileStart, rs).panicked,
     panic_msg |-> CompileLoop(CompileStart, rs).panic_msg]

----------------------------------------------------------------------------
(* java_script_encoder.rs: JavaScriptEncoder::create *)

JavaScriptEncoderMode == {"Source", "Block", "Html", "Attribute"}

\* ValidAsciiRange
ValidAsciiRange == {"ASCII", "ASCIIExtended", "NoRestrict"}

\* mutant: the form-feed substitution left out
ControlSubs_NoFormFeed ==
    <<Uni(8, Sub(<<92, 98>>)),
      Uni(9, Sub(<<92, 116>>)),
      Uni(10, Sub(<<92, 110>>)),
      Uni(13, Sub(<<92, 114>>))>>

\* the five control-character substitutions every mode starts with:
\* U+0008 -> \b, U+0009 -> \t, U+000A -> \n, U+000C -> \f, U+000D -> \r
ControlSubs ==
    <<Uni(8, Sub(<<92, 98>>)),
      Uni(9, Sub(<<92, 116>>)),
      Uni(10, Sub(<<92, 110>>)),
      Uni(12, Sub(<<92, 102>>)),
      Uni(13, Sub(<<92, 114>>))>>

\* mutant: Source mode without its rule for '&'
SourceRules_NoAmp ==
    <<Uni(8, Sub(<<92, 98>>)),
      Uni(9, Sub(<<92, 116>>)),
      Uni(10, Sub(<<92, 110>>)),
      Uni(12, Sub(<<92, 102>>)),
      Uni(13, Sub(<<92, 114>>)),
      Uni(8232, Esc(FALSE, TRUE)),
      Uni(8233, Esc(FALSE, TRUE)),
      Uni(0, Esc(FALSE, FALSE)),
      Uni(34, Esc(FALSE, TRUE)),
      Uni(39, Esc(FALSE, TRUE)),
      Uni(92, Esc(FALSE, TRUE))>>

\* the rule array of JavaScriptEncoderMode::Source; RuleType::Esc(b) is Esc { simple: b }
SourceRules ==
    ControlSubs \o
    <<Uni(8232, Esc(FALSE, TRUE)),      \* U+2028
      Uni(8233, Esc(FALSE, TRUE)),      \* U+2029
      Uni(0, Esc(FALSE, FALSE)),        \* NUL
      Uni(34, Esc(FALSE, TRUE)),        \* "
      Uni(39, Esc(FALSE, TRUE)),        \* '
      Uni(92, Esc(FALSE, TRUE)),        \* \
      Uni(38, Esc(FALSE, FALSE))>>      \* &

\* mutant: Block mode without its rule for '-'
BlockRules_NoDash ==
    <<Uni(8, Sub(<<92, 98>>)),
      Uni(9, Sub(<<92, 116>>)),
      Uni(10, Sub(<<92, 110>>)),
      Uni(12, Sub(<<92, 102>>)),
      Uni(13, Sub(<<92, 114>>)),
      Uni(0, Esc(FALSE, FALSE)),
      Uni(47, Esc(FALSE, TRUE)),
      Uni(8232, Esc(FALSE, TRUE)),
      Uni(8233, Esc(FALSE, TRUE)),
      Uni(34, Esc(FALSE, TRUE)),
      Uni(39, Esc(FALSE, TRUE)),
      Uni(38, Esc(FALSE, TRUE)),
      Uni(92, Esc(FALSE, TRUE))>>

\* the rule array of JavaScriptEncoderMode::Block
BlockRules ==
    ControlSubs \o
    <<Uni(0, Esc(FALSE, FALSE)),
      Uni(47, Esc(FALSE, TRUE)),        \* /
      Uni(8232, Esc(FALSE, TRUE)),
      Uni(8233, Esc(FALSE, TRUE)),
      Uni(45, Esc(FALSE, TRUE)),        \* -
      Uni(34, Esc(FALSE, TRUE)),
      Uni(39, Esc(FALSE, TRUE)),
      Uni(38, Esc(FALSE, TRUE)),
      Uni(92, Esc(FALSE, TRUE))>>

\* mutant: Html mode with the quotes simple-escaped, as in Block mode
HtmlRules_SimpleQuotes ==
    <<Uni(8, Sub(<<92, 98>>)),
      Uni(9, Sub(<<92, 116>>)),
      Uni(10, Sub(<<92, 110>>)),
      Uni(12, Sub(<<92, 102>>)),
      Uni(13, Sub(<<92, 114>>)),
      Uni(0, Esc(FALSE, FALSE)),
      Uni(8232, Esc(FALSE, TRUE)),
      Uni(8233, Esc(FALSE, TRUE)),
      Uni(47, Esc(FALSE, TRUE)),
      Uni(45, Esc(FALSE, TRUE)),
      Uni(34, Esc(FALSE, TRUE)),
      Uni(39, Esc(FALSE, TRUE)),
      Uni(38, Esc(FALSE, TRUE)),
      Uni(92, Esc(FALSE, TRUE))>>

\* the rule array of JavaScriptEncoderMode::Html
HtmlRules ==
    ControlSubs \o
    <<Uni(0, Esc(FALSE, FALSE)),
      Uni(8232, Esc(FALSE, TRUE)),
      Uni(8233, Esc(FALSE, TRUE)),
      Uni(47, Esc(FALSE, TRUE)),
      Uni(45, Esc(FALSE, TRUE)),
      Uni(34, Esc(FALSE, FALSE)),
      Uni(39, Esc(FALSE, FALSE)),
      Uni(38, Esc(FALSE, TRUE)),
      Uni(92, Esc(FALSE, TRUE))>>

\* the rule array of JavaScriptEncoderMode::Attribute
AttributeRules ==
    ControlSubs \o
    <<Uni(8232, Esc(FALSE, TRUE)),
      Uni(8233, Esc(FALSE, TRUE)),
      Uni(0, Esc(FALSE, FALSE)),
      Uni(34, Esc(FALSE, FALSE)),
      Uni(39, Esc(FALSE, FALSE)),
      Uni(38, Esc(FALSE, TRUE)),
      Uni(92, Esc(FALSE, TRUE))>>

\* the `match config.mode` of JavaScriptEncoder::create
JsRules(m) ==
    CASE m = "Source" -> SourceRules
      [] m = "Block" -> BlockRules
      [] m = "Html" -> HtmlRules
      [] m = "Attribute" -> AttributeRules

----------------------------------------------------------------------------
(* uri_encoder.rs: UriEncoder::new *)

MAX_UTF8_2_BYTE == 2047
UTF8_BYTE_MSB == 128
UTF8_2_BYTE_FIRST_MSB == 192
UTF8_3_BYTE_FIRST_MSB == 224
UTF8_4_BYTE_FIRST_MSB == 240
UTF8_SHIFT == 6
UTF8_MASK == 63

UriEncoderMode == {"Component", "FullUri"}

\* ((1 << 10) - 1) << ('0' & 31)
one_to_nine == WordShl(Word((2 ^ 10) - 1), BitAnd(48, 31))
\* mutant: one letter short, 25 bits instead of 26
uppercase_a_z_Short == WordShl(Word((2 ^ 25) - 1), BitAnd(65, 31))

\* ((1 << 26) - 1) << ('A' & 31)
uppercase_a_z == WordShl(Word((2 ^ 26) - 1), BitAnd(65, 31))
\* ((1 << 26) - 1) << ('a' & 31)
lowercase_a_z == WordShl(Word((2 ^ 26) - 1), BitAnd(97, 31))

\* one_to_nine | char_mask('-') | char_mask('.')
uri_unreserved_bucket1 == one_to_nine \cup char_mask(45) \cup char_mask(46)
\* uppercase_a_z | char_mask('_')
uri_unreserved_bucket2 == uppercase_a_z \cup char_mask(95)
\* lowercase_a_z | char_mask('~')
uri_unreserved_bucket3 == lowercase_a_z \cup char_mask(126)

\* ['!', '#', '$', '?', '&', '(', ')', '*', '+', ',', ':', ';', '=', '/', '\'']
reserved_chars1 == {33, 35, 36, 63, 38, 40, 41, 42, 43, 44, 58, 59, 61, 47, 39}
\* ['[', ']', '@']
reserved_chars2 == {91, 93, 64}

uri_reserved_bucket1 == UNION {char_mask(c) : c \in reserved_chars1}
uri_reserved_bucket2 == UNION {char_mask(c) : c \in reserved_chars2}

\* UriEncoder::new: the valid_masks array (index 0..3)
UriNew(m) ==
    IF m = "Component"
    THEN [b \in 0..3 |->
            CASE b = 0 -> {}
              [] b = 1 -> uri_unreserved_bucket1
              [] b = 2 -> uri_unreserved_bucket2
              [] b = 3 -> uri_unreserved_bucket3]
    ELSE [b \in 0..3 |->
            CASE b = 0 -> {}
              [] b = 1 -> uri_unreserved_bucket1 \cup uri_reserved_bucket1
              [] b = 2 -> uri_unreserved_bucket2 \cup uri_reserved_bucket2
              [] b = 3 -> uri_unreserved_bucket3]

----------------------------------------------------------------------------
(* xml_encoder.rs: XmlEncoder::new *)

XmlEncoderMode ==
    {"All", "Content", "Attribute", "SingleQuotedAttribute", "DoubleQuotedAttribute"}

\* mutant: form feed kept valid as well
base_mask_WithFF == char_mask(13) \cup char_mask(9) \cup char_mask(10) \cup char_mask(12)

\* char_mask('\r') | char_mask('\t') | char_mask('\n')
base_mask == char_mask(13) \cup char_mask(9) \cup char_mask(10)

\* mutant: Content mode without '>'
to_be_encoded_NoGt(m) ==
    CASE m = "All" -> {38, 60, 62, 39, 34}
      [] m = "Content" -> {38, 60}
      [] m = "Attribute" -> {38, 60, 39, 34}
      [] m = "SingleQuotedAttribute" -> {38, 60, 39}
      [] m = "DoubleQuotedAttribute" -> {38, 60, 34}

\* the to_be_encoded array of each mode
to_be_encoded(m) ==
    CASE m = "All" -> {38, 60, 62, 39, 34}
      [] m = "Content" -> {38, 60, 62}
      [] m = "Attribute" -> {38, 60, 39, 34}
      [] m = "SingleQuotedAttribute" -> {38, 60, 39}
      [] m = "DoubleQuotedAttribute" -> {38, 60, 34}

to_be_encoded_mask(m) == UNION {char_mask(c) : c \in to_be_encoded(m)}

\* XmlEncoder::new: the valid_masks array (index 0..3)
XmlNew(m) ==
    [b \in 0..3 |->
        CASE b = 0 -> base_mask
          [] b = 1 -> U32_MAX_WORD \cap WordNot(to_be_encoded_mask(m))
          [] b = 2 -> U32_MAX_WORD
          [] b = 3 -> U32_MAX_WORD]

----------------------------------------------------------------------------
(* The encode loops: what one iteration pushes for the char c.  An emission  *)
(* containing OOB stands for an index out of bounds, i.e. a panic.          *)

\* arr[bucket] with Rust's bounds check; a panic is the word {OOB}
MaskAt(arr, bucket) == IF bucket \in DOMAIN arr THEN arr[bucket] ELSE {OOB}

\* mutant: ASCIIExtended handled by the arm of ASCII
JsPolicy_ExtendedAsStrict(c) ==
    IF ascii_properties = "NoRestrict" THEN <<c>>
    ELSE IF c <= 255 THEN encode_as_hex_byte(escape_char, c)
    ELSE encode_as_unicode(escape_char, c)

\* the trailing `match self.ascii_properties()` of JavaScriptEncoder::encode
JsPolicy(c) ==
    CASE ascii_properties = "NoRestrict" -> <<c>>
      [] ascii_properties = "ASCIIExtended" ->
            IF c > 255 THEN encode_as_unicode(escape_char, c) ELSE <<c>>
      [] ascii_properties = "ASCII" ->
            IF c <= 255 THEN encode_as_hex_byte(escape_char, c)
            ELSE encode_as_unicode(escape_char, c)

\* mutant: the DEL boundary tested with <= 127
JsMaskSet_InclDel(c) ==
    IF ascii_properties = "ASCII" /\ c <= 127 THEN <<c>>
    ELSE CASE ascii_properties = "NoRestrict" -> <<c>>
           [] ascii_properties = "ASCIIExtended" ->
                 IF c > 255 THEN encode_as_unicode(escape_char, c) ELSE <<c>>
           [] ascii_properties = "ASCII" ->
                 IF c <= 255 THEN encode_as_hex_byte(escape_char, c)
                 ELSE encode_as_unicode(escape_char, c)

\* the mask-set branch of the fast route: ASCII passes chars below 127
JsMaskSet(c) ==
    IF ascii_properties = "ASCII" /\ c < 127 THEN <<c>> ELSE JsPolicy(c)

\* mutant: the simple flag honoured at and above 256 as well
JsEncodeChar_SimpleHigh(c) ==
    IF c < 256
    THEN IF MaskAt(rules.valid_ascii_mask, char_bucket(c)) = {OOB}
         THEN <<OOB>>
         ELSE IF MaskAt(rules.valid_ascii_mask, char_bucket(c)) \cap char_mask(c) = {}
         THEN IF c \in DOMAIN rules.encode_map
              THEN IF rules.encode_map[c].simple_escape
                   THEN <<escape_char, c>>
                   ELSE encode_as_hex_byte(escape_char, c)
              ELSE IF c \in DOMAIN rules.replace_map
                   THEN rules.replace_map[c]
                   ELSE JsPolicy(c)
         ELSE JsMaskSet(c)
    ELSE IF c \in DOMAIN rules.replace_map
         THEN rules.replace_map[c]
         ELSE IF c \in DOMAIN rules.encode_map
              THEN IF rules.encode_map[c].simple_escape
                   THEN <<escape_char, c>>
                   ELSE encode_as_unicode(escape_char, c)
              ELSE JsPolicy(c)

\* mutant: a cleared bit without a recorded rule handled as a set bit
JsEncodeChar_GapPass(c) ==
    IF c < 256
    THEN IF MaskAt(rules.valid_ascii_mask, char_bucket(c)) = {OOB}
         THEN <<OOB>>
         ELSE IF MaskAt(rules.valid_ascii_mask, char_bucket(c)) \cap char_mask(c) = {}
         THEN IF c \in DOMAIN rules.encode_map
              THEN IF rules.encode_map[c].simple_escape
                   THEN <<escape_char, c>>
                   ELSE encode_as_hex_byte(escape_char, c)
              ELSE IF c \in DOMAIN rules.replace_map
                   THEN rules.replace_map[c]
                   ELSE JsMaskSet(c)
         ELSE JsMaskSet(c)
    ELSE IF c \in DOMAIN rules.replace_map
         THEN rules.replace_map[c]
         ELSE IF c \in DOMAIN rules.encode_map
              THEN encode_as_unicode(escape_char, c)
              ELSE JsPolicy(c)

\* the body of `for character in input.chars()` of JavaScriptEncoder::encode
JsEncodeChar(c) ==
    IF c < 256
    THEN IF MaskAt(rules.valid_ascii_mask, char_bucket(c)) = {OOB}
         THEN <<OOB>>
         ELSE IF MaskAt(rules.valid_ascii_mask, char_bucket(c)) \cap char_mask(c) = {}
         THEN IF c \in DOMAIN rules.encode_map
              THEN IF rules.encode_map[c].simple_escape
                   THEN <<escape_char, c>>
                   ELSE IF c <= 255
                        THEN encode_as_hex_byte(escape_char, c)
                        ELSE encode_as_unicode(escape_char, c)
              ELSE IF c \in DOMAIN rules.replace_map
                   THEN rules.replace_map[c]
                   ELSE IF c \in rules.invalid_set
                        THEN <<invalid_char>>
                        ELSE JsPolicy(c)
         ELSE JsMaskSet(c)
    ELSE IF c \in DOMAIN rules.replace_map
         THEN rules.replace_map[c]
         ELSE IF c \in DOMAIN rules.encode_map
              THEN IF c <= 255
                   THEN encode_as_hex_byte(escape_char, c)
                   ELSE encode_as_unicode(escape_char, c)
              ELSE IF c \in rules.invalid_set
                   THEN <<invalid_char>>
                   ELSE JsPolicy(c)

\* the final `match self.ascii_properties()` of Encoder::encode
DefaultPolicy(c) ==
    IF ascii_properties = "NoRestrict" THEN <<c>>
    ELSE IF c <= 255
         THEN encode_as_hex_byte(escape_char, c)
         ELSE encode_as_unicode(escape_char, c)

\* what follows the fast path of Encoder::encode: replace_map, then the policy
DefaultSlowPath(c) ==
    IF c \in DOMAIN rules.replace_map
    THEN rules.replace_map[c]
    ELSE DefaultPolicy(c)

\* the body of `for character in input.chars()` of the trait's Encoder::encode
DefaultEncodeChar(c) ==
    IF c < 256
    THEN IF MaskAt(rules.valid_ascii_mask, char_bucket(c)) = {OOB}
         THEN <<OOB>>
         ELSE IF MaskAt(rules.valid_ascii_mask, char_bucket(c)) \cap char_mask(c) = {}
         THEN IF c \in DOMAIN rules.encode_map
              THEN IF rules.encode_map[c].simple_escape
                   THEN <<escape_char, c>>
                   ELSE IF c <= 255
                        THEN encode_as_hex_byte(escape_char, c)
                        ELSE encode_as_unicode(escape_char, c)
              ELSE DefaultSlowPath(c)
         ELSE IF ascii_properties = "ASCII" /\ c < 127
              THEN <<c>>
              ELSE DefaultSlowPath(c)
    ELSE DefaultSlowPath(c)

\* mutant: the digits taken from the lower-case table
PercentByte_Lower(b) ==
    <<37, TableAt(HEX, Shr(b, HEX_SHIFT)), TableAt(HEX, BitAnd(b, HEX_MASK))>>

\* '%' and the two upper-case hex digits of the byte b
PercentByte(b) ==
    <<37, TableAt(U_HEX, Shr(b, HEX_SHIFT)), TableAt(U_HEX, BitAnd(b, HEX_MASK))>>

\* the body of `for c in input.chars()` of UriEncoder::encode
UriEncodeChar(c) ==
    IF c <= 127
    THEN IF MaskAt(valid_masks, char_bucket(c)) = {OOB}
         THEN <<OOB>>
         ELSE IF MaskAt(valid_masks, char_bucket(c)) \cap char_mask(c) # {}
              THEN <<c>>
              ELSE PercentByte(c)
    ELSE IF c <= MAX_UTF8_2_BYTE
    THEN PercentByte(BitOr(UTF8_2_BYTE_FIRST_MSB, Shr(c, UTF8_SHIFT)))
         \o PercentByte(BitOr(UTF8_BYTE_MSB, BitAnd(c, UTF8_MASK)))
    ELSE IF c <= 65535
    THEN PercentByte(BitOr(UTF8_3_BYTE_FIRST_MSB, Shr(c, 2 * UTF8_SHIFT)))
         \o PercentByte(BitOr(UTF8_BYTE_MSB, BitAnd(Shr(c, UTF8_SHIFT), UTF8_MASK)))
         \o PercentByte(BitOr(UTF8_BYTE_MSB, BitAnd(c, UTF8_MASK)))
    ELSE PercentByte(BitOr(UTF8_4_BYTE_FIRST_MSB, Shr(c, 3 * UTF8_SHIFT)))
         \o PercentByte(BitOr(UTF8_BYTE_MSB, BitAnd(Shr(c, 2 * UTF8_SHIFT), UTF8_MASK)))
         \o PercentByte(BitOr(UTF8_BYTE_MSB, BitAnd(Shr(c, UTF8_SHIFT), UTF8_MASK)))
         \o PercentByte(BitOr(UTF8_BYTE_MSB, BitAnd(c, UTF8_MASK)))

\* mutant: '&' pushed as it is
XmlEntity_RawAmp(c) ==
    CASE c = 38 -> <<38>>
      [] c = 60 -> <<38, 108, 116, 59>>
      [] c = 62 -> <<38, 103, 116, 59>>
      [] c = 39 -> <<38, 35, 51, 57, 59>>
      [] c = 34 -> <<38, 35, 51, 52, 59>>
      [] OTHER -> <<32>>

\* the `match c` of XmlEncoder::encode
XmlEntity(c) ==
    CASE c = 38 -> <<38, 97, 109, 112, 59>>        \* &amp;
      [] c = 60 -> <<38, 108, 116, 59>>            \* &lt;
      [] c = 62 -> <<38, 103, 116, 59>>            \* &gt;
      [] c = 39 -> <<38, 35, 51, 57, 59>>          \* &#39;
      [] c = 34 -> <<38, 35, 51, 52, 59>>          \* &#34;
      [] OTHER -> <<32>>

\* mutant: U+FFFD itself taken as invalid
XmlEncodeChar_Ge(c) ==
    IF c < 127
    THEN IF c > 62 THEN <<c>>
         ELSE IF MaskAt(valid_masks, char_bucket(c)) = {OOB}
              THEN <<OOB>>
              ELSE IF MaskAt(valid_masks, char_bucket(c)) \cap char_mask(c) # {}
                   THEN <<c>>
                   ELSE XmlEntity(c)
    ELSE IF c >= 65533 \/ (c >= 64976 /\ c <= 65007)
         THEN <<32>>
         ELSE <<c>>

\* the body of `for c in input.chars()` of XmlEncoder::encode
XmlEncodeChar(c) ==
    IF c < 127
    THEN IF c > 62 THEN <<c>>
         ELSE IF MaskAt(valid_masks, char_bucket(c)) = {OOB}
              THEN <<OOB>>
              ELSE IF MaskAt(valid_masks, char_bucket(c)) \cap char_mask(c) # {}
                   THEN <<c>>
                   ELSE XmlEntity(c)
    ELSE IF c > 65533 \/ (c >= 64976 /\ c <= 65007)
         THEN <<32>>
         ELSE <<c>>

Panics(em) == \E i \in DOMAIN em : em[i] = OOB

----------------------------------------------------------------------------
(* The inputs given to encode *)

\* every char below 256, the chars around each threshold of the code, and
\* NumSamples evenly spaced code points of the whole range
CharSample ==
    (0..255)
    \cup {256, 257, 2047, 2048, 4660, 8231, 8232, 8233, 8234, 55295, 57344,
          64975, 64976, 65007, 65008, 65533, 65534, 65535, 65536, 73768,
          131071, 1114111}
    \cup {c \in {k * (1114112 \div NumSamples) : k \in 1..NumSamples} : IsScalar(c)}

\* the chars of the multi-character inputs:  \ " ' / < & a U+00FF U+2028
StrAlphabet == {92, 34, 39, 47, 60, 38, 97, 255, 8232}

RECURSIVE Strings(_)
Strings(n) ==
    IF n = 0 THEN {<<>>}
    ELSE Strings(n - 1) \cup
         {Append(s, c) : s \in {t \in Strings(n - 1) : Len(t) = n - 1}, c \in StrAlphabet}

Inputs == {<<c>> : c \in CharSample} \cup Strings(MaxLen)

\* the escape-lead chars given to create:  \  and  U+00E9
EscapeLeads == {92, 233}

\* u16::MAX / 2
U16_MAX_HALF == (2^16 - 1) \div 2

\* u32::MAX / 2
U32_MAX_HALF == (2^30 - 1) * 2 + 1

Min(a, b) == IF a <= b THEN a ELSE b

\* mutant: the product compared with the cap before it is cast
JsInitCapacity_MinFirst(max_len, n) == Min(U16_MAX_HALF, max_len * n)

\* (u16::MAX / 2).min((output_buffer_max_len * input.len()) as u16) as usize
JsInitCapacity(max_len, n) == Min(U16_MAX_HALF, (max_len * n) % (2^16))

\* mutant: the factor left out
U32InitCapacity_NoFactor(factor, n) == Min(U32_MAX_HALF, n)

\* (u32::MAX / 2).min((input.len() * factor) as u32) as usize; the products
\* of the inputs modelled stay below 2^31, where the cast keeps the value
U32InitCapacity(factor, n) == Min(U32_MAX_HALF, n * factor)

\* the argument of String::with_capacity in the encode of the encoder
InitCapacity(n) ==
    CASE encoder = "js" -> JsInitCapacity(rules.output_buffer_max_len, n)
      [] encoder = "uri" -> U32InitCapacity(9, n)
      [] encoder = "xml" -> U32InitCapacity(5, n)
      [] OTHER -> rules.output_buffer_max_len * n

----------------------------------------------------------------------------
(* The state machine: an encoder is constructed, then encode is called on   *)
(* it; the call walks its input one char per step and returns.              *)

NoRules == compile_encoder_rules(<<>>)

InitJs ==
    /\ encoder = "js"
    /\ mode \in JavaScriptEncoderMode
    /\ rules = compile_encoder_rules(JsRules(mode))
    /\ ~rules.panicked
    /\ escape_char \in EscapeLeads
    /\ invalid_char = 32
    /\ ascii_properties \in ValidAsciiRange
    /\ valid_masks = <<>>
    /\ rule_array = JsRules(mode)

InitUri ==
    /\ encoder = "uri"
    /\ mode \in UriEncoderMode
    /\ valid_masks = UriNew(mode)
    /\ rules = NoRules
    /\ rule_array = <<>>
    /\ escape_char = 37
    /\ invalid_char = 32
    /\ ascii_properties = "NoRestrict"

InitXml ==
    /\ encoder = "xml"
    /\ mode \in XmlEncoderMode
    /\ valid_masks = XmlNew(mode)
    /\ rules = NoRules
    /\ rule_array = <<>>
    /\ escape_char = 38
    /\ invalid_char = 32
    /\ ascii_properties = "NoRestrict"

\* no call was made yet, by either caller
NoCalls ==
    /\ input = <<>>
    /\ idx = 1
    /\ output = <<>>
    /\ calls = 0
    /\ panic_msg = ""
    /\ input2 = <<>>
    /\ idx2 = 1
    /\ output2 = <<>>
    /\ pc2 = "idle"
    /\ input_len = 0
    /\ init_capacity = 0

Init ==
    /\ InitJs \/ InitUri \/ InitXml
    /\ NoCalls
    /\ pc = "idle"

\* encode(&self, input): the call, up to the first loop test
Encode(s) ==
    /\ pc = "idle"
    /\ input' = s
    /\ input_len' = StrLen(s)
    /\ init_capacity' = InitCapacity(StrLen(s))
    /\ idx' = 1
    /\ output' = <<>>
    /\ pc' = "loop"
    /\ calls' = calls + 1
    /\ UNCHANGED <<config, rule_array, panic_msg, caller2>>

\* mutant: nothing pushed for a char equal to the char before it
Push_SkipRepeat(em) ==
    /\ idx' = idx + 1
    /\ IF Panics(em)
       THEN pc' = "panic" /\ output' = output /\ panic_msg' = "index out of bounds"
       ELSE /\ pc' = "loop"
            /\ panic_msg' = panic_msg
            /\ output' = IF idx > 1 /\ input[idx] = input[idx - 1]
                          THEN output
                          ELSE output \o em
    /\ UNCHANGED <<config, reserve, rule_array, input, calls, caller2>>

\* one iteration of the loop, pushing em for the char at idx
Push(em) ==
    /\ idx' = idx + 1
    /\ IF Panics(em)
       THEN pc' = "panic" /\ output' = output /\ panic_msg' = "index out of bounds"
       ELSE pc' = "loop" /\ output' = output \o em /\ panic_msg' = panic_msg
    /\ UNCHANGED <<config, reserve, rule_array, input, calls, caller2>>

JsEncodeStep ==
    /\ encoder = "js" /\ pc = "loop" /\ idx <= Len(input)
    /\ Push(JsEncodeChar(input[idx]))

UriEncodeStep ==
    /\ encoder = "uri" /\ pc = "loop" /\ idx <= Len(input)
    /\ Push(UriEncodeChar(input[idx]))

XmlEncodeStep ==
    /\ encoder = "xml" /\ pc = "loop" /\ idx <= Len(input)
    /\ Push(XmlEncodeChar(input[idx]))

\* input.chars() is exhausted: shrink_to_fit and return the output
Return ==
    /\ pc = "loop" /\ idx > Len(input)
    /\ pc' = "done"
    /\ UNCHANGED <<config, reserve, rule_array, panic_msg, input, idx, output, calls, caller2>>

Next ==
    \/ \E s \in Inputs : Encode(s)
    \/ JsEncodeStep
    \/ UriEncodeStep
    \/ XmlEncodeStep
    \/ Return

Spec == Init /\ [][Next]_vars

----------------------------------------------------------------------------
(* Re-encoding: the caller passes the String a call returned to encode      *)
(* again, on an XmlEncoder.                                                 *)

MaxXmlLen == 2
MaxCalls == 2

\* the chars of the inputs:  & < > ' " a ; #
XmlAlphabet == {38, 60, 62, 39, 34, 97, 59, 35}

RECURSIVE StringsOver(_, _)
StringsOver(A, n) ==
    IF n = 0 THEN {<<>>}
    ELSE StringsOver(A, n - 1) \cup
         {Append(s, c) : s \in {t \in StringsOver(A, n - 1) : Len(t) = n - 1}, c \in A}

XmlInputs == StringsOver(XmlAlphabet, MaxXmlLen)

XmlInit ==
    /\ InitXml
    /\ NoCalls
    /\ pc = "idle"

\* encode(&self, &returned): the next call takes the returned String as input
Reencode ==
    /\ pc = "done"
    /\ calls < MaxCalls
    /\ input' = output
    /\ input_len' = StrLen(output)
    /\ init_capacity' = InitCapacity(StrLen(output))
    /\ idx' = 1
    /\ output' = <<>>
    /\ pc' = "loop"
    /\ calls' = calls + 1
    /\ UNCHANGED <<config, rule_array, panic_msg, caller2>>

XmlNext ==
    \/ \E s \in XmlInputs : Encode(s)
    \/ XmlEncodeStep
    \/ Return
    \/ Reencode

XmlSpec == XmlInit /\ [][XmlNext]_vars

----------------------------------------------------------------------------
(* Two callers run encode(&self, ..) on the same encoder at once, their     *)
(* loop iterations interleaved in any order.                                *)

MaxConcLen == 2

\* the chars of the concurrent inputs:  & U+00FF
ConcAlphabet == {38, 255}

ConcInputs == StringsOver(ConcAlphabet, MaxConcLen)

\* the loop body of the encode of the constructed encoder
EncodeChar(c) ==
    CASE encoder = "js" -> JsEncodeChar(c)
      [] encoder = "uri" -> UriEncodeChar(c)
      [] encoder = "xml" -> XmlEncodeChar(c)
      [] OTHER -> DefaultEncodeChar(c)

\* the second caller's encode(&self, input), up to the first loop test
Encode2(s) ==
    /\ pc2 = "idle"
    /\ input2' = s
    /\ idx2' = 1
    /\ output2' = <<>>
    /\ pc2' = "loop"
    /\ UNCHANGED <<config, reserve, rule_array, panic_msg, input, idx, output, pc, calls>>

\* mutant: the second caller pushes onto the first caller's String
Push2_Shared(em) ==
    /\ idx2' = idx2 + 1
    /\ IF Panics(em)
       THEN pc2' = "panic" /\ output' = output /\ panic_msg' = "index out of bounds"
       ELSE pc2' = "loop" /\ output' = output \o em /\ panic_msg' = panic_msg
    /\ UNCHANGED <<config, reserve, rule_array, input, idx, output2, pc, calls, input2>>

\* one iteration of the second caller's loop, pushing em onto its own String
Push2(em) ==
    /\ idx2' = idx2 + 1
    /\ IF Panics(em)
       THEN pc2' = "panic" /\ output2' = output2 /\ panic_msg' = "index out of bounds"
       ELSE pc2' = "loop" /\ output2' = output2 \o em /\ panic_msg' = panic_msg
    /\ UNCHANGED <<config, reserve, rule_array, input, idx, output, pc, calls, input2>>

EncodeStep2 ==
    /\ pc2 = "loop" /\ idx2 <= Len(input2)
    /\ Push2(EncodeChar(input2[idx2]))

\* the second caller's input.chars() is exhausted: its output is returned
Return2 ==
    /\ pc2 = "loop" /\ idx2 > Len(input2)
    /\ pc2' = "done"
    /\ UNCHANGED <<config, reserve, rule_array, panic_msg, input, idx, output, pc,
                   calls, input2, idx2, output2>>

ConcNext ==
    \/ \E s \in ConcInputs : Encode(s)
    \/ JsEncodeStep
    \/ UriEncodeStep
    \/ XmlEncodeStep
    \/ Return
    \/ \E s \in ConcInputs : Encode2(s)
    \/ EncodeStep2
    \/ Return2

ConcSpec == Init /\ [][ConcNext]_vars

----------------------------------------------------------------------------
(* Construction from a rule array: an implementor of the Encoder trait      *)
(* compiles its rules with compile_encoder_rules and encodes with the       *)
(* trait's own encode.                                                      *)

MaxRules == 2

\* the rules the arrays are made of
RuleSample ==
    {Uni(97, Esc(FALSE, TRUE)),
     Uni(97, Sub(<<65>>)),
     Uni(255, Esc(FALSE, FALSE)),
     Uni(256, Esc(FALSE, FALSE)),
     Uni(257, Sub(<<63, 63>>)),
     Range(97, 100, {}, Esc(FALSE, FALSE)),
     Range(97, 100, {98}, Sub(<<45>>)),
     Range(100, 97, {}, Esc(FALSE, FALSE)),
     Range(98, 98, {}, Sub(<<45>>)),
     Range(98, 99, {98}, Sub(<<233, 45, 45>>)),
     Range(250, 256, {}, Esc(FALSE, FALSE)),
     Range(99, 257, {}, Esc(FALSE, TRUE)),
     Range(255, 258, {256}, Sub(<<35>>)),
     Range(256, 259, {}, Esc(FALSE, TRUE))}

RECURSIVE ArraysOver(_, _)
ArraysOver(R, n) ==
    IF n = 0 THEN {<<>>}
    ELSE ArraysOver(R, n - 1) \cup
         {Append(a, r) : a \in {t \in ArraysOver(R, n - 1) : Len(t) = n - 1}, r \in R}

RuleArrays == ArraysOver(RuleSample, MaxRules)

\* the chars of the inputs, single chars around the rules' bounds
CompileChars == {96, 97, 98, 99, 100, 249, 250, 255, 256, 257, 258, 259}

CompileInputs == {<<c>> : c \in CompileChars}

\* the rules field while compile_encoder_rules has returned nothing
Uncompiled == [built |-> FALSE]

CompileInit ==
    /\ encoder = "custom"
    /\ mode = "Custom"
    /\ rule_array \in RuleArrays
    /\ rules = Uncompiled
    /\ escape_char = 92
    /\ invalid_char = 32
    /\ ascii_properties \in ValidAsciiRange
    /\ valid_masks = <<>>
    /\ NoCalls
    /\ pc = "new"

\* Self::compile_encoder_rules(rule_array): a panic unwinds and nothing is returned
Compile ==
    /\ pc = "new"
    /\ IF compile_encoder_rules(rule_array).panicked
       THEN /\ pc' = "panic"
            /\ panic_msg' = compile_encoder_rules(rule_array).panic_msg
            /\ rules' = rules
       ELSE /\ pc' = "idle"
            /\ panic_msg' = panic_msg
            /\ rules' = compile_encoder_rules(rule_array)
    /\ UNCHANGED <<encoder, mode, escape_char, invalid_char, ascii_properties,
                   valid_masks, rule_array, input, idx, output, calls, caller2,
                   reserve>>

DefaultEncodeStep ==
    /\ encoder = "custom" /\ pc = "loop" /\ idx <= Len(input)
    /\ Push(DefaultEncodeChar(input[idx]))

CompileNext ==
    \/ Compile
    \/ \E s \in CompileInputs : Encode(s)
    \/ DefaultEncodeStep
    \/ Return

CompileSpec == CompileInit /\ [][CompileNext]_vars

----------------------------------------------------------------------------
(* A configuration gap: a JavaScriptEncoder whose rules field (pub(crate))  *)
(* holds an artifact with a cleared mask bit that no map entry goes with.   *)

\* the chars whose bit is cleared by hand:  a  ~  U+00C8
GapChars == {97, 126, 200}

\* the artifact art with the valid_ascii_mask bit of g cleared
WithGap(art, g) ==
    [art EXCEPT !.valid_ascii_mask =
        [b \in DOMAIN art.valid_ascii_mask |->
            IF b = char_bucket(g)
            THEN art.valid_ascii_mask[b] \ char_mask(g)
            ELSE art.valid_ascii_mask[b]]]

\* the inputs: the gap chars, a char without a rule and a quote
GapInputs == {<<c>> : c \in GapChars \cup {98, 34}}

GapInit ==
    /\ encoder = "js"
    /\ mode \in JavaScriptEncoderMode
    /\ \E g \in GapChars : rules = WithGap(compile_encoder_rules(JsRules(mode)), g)
    /\ rule_array = JsRules(mode)
    /\ escape_char \in EscapeLeads
    /\ invalid_char = 32
    /\ ascii_properties \in ValidAsciiRange
    /\ valid_masks = <<>>
    /\ NoCalls
    /\ pc = "idle"

GapNext ==
    \/ \E s \in GapInputs : Encode(s)
    \/ JsEncodeStep
    \/ Return

GapSpec == GapInit /\ [][GapNext]_vars

----------------------------------------------------------------------------
(* The reserve of JavaScriptEncoder::encode for long inputs: only the byte  *)
(* length of the input enters it, so the call is taken up to                *)
(* String::with_capacity and the chars of the input are left out.           *)

\* the byte lengths of the inputs: short ones and those around the points
\* where twice the length passes u16::MAX / 2 and u16::MAX
LenSample ==
    (0..40) \cup {16382, 16383, 16384, 16385, 24576, 32766, 32767, 32768,
                  32769, 40000, 49151, 49152, 65535, 65536, 65537}

CapacityInit ==
    /\ InitJs
    /\ NoCalls
    /\ pc = "idle"

\* let init_capacity = ..; String::with_capacity(init_capacity), for an
\* input of n bytes
Reserve(n) ==
    /\ pc = "idle"
    /\ input_len' = n
    /\ init_capacity' = JsInitCapacity(rules.output_buffer_max_len, n)
    /\ pc' = "reserved"
    /\ calls' = calls + 1
    /\ UNCHANGED <<config, rule_array, panic_msg, input, idx, output, caller2>>

CapacityNext == \E n \in LenSample : Reserve(n)

CapacitySpec == CapacityInit /\ [][CapacityNext]_vars

----------------------------------------------------------------------------
(* Reference notions the properties are stated with (arithmetic, not the    *)
(* shift-and-mask code)                                                      *)

LowerHex(n) == IF n < 10 THEN 48 + n ELSE 97 + (n - 10)
UpperHex(n) == IF n < 10 THEN 48 + n ELSE 65 + (n - 10)

LowerHexDigits == {LowerHex(n) : n \in 0..15}

\* lead 'x' hh
HexEscape(lead, c) == <<lead, 120, LowerHex(c \div 16), LowerHex(c % 16)>>

\* lead 'u' hhhh, for a code point of the basic plane
UnicodeEscape(lead, c) ==
    <<lead, 117, LowerHex((c \div 4096) % 16), LowerHex((c \div 256) % 16),
      LowerHex((c \div 16) % 16), LowerHex(c % 16)>>

\* the canonical UTF-8 byte sequence of a scalar value
Utf8Bytes(c) ==
    IF c < 128 THEN <<c>>
    ELSE IF c < 2048 THEN <<192 + (c \div 64), 128 + (c % 64)>>
    ELSE IF c < 65536
    THEN <<224 + (c \div 4096), 128 + ((c \div 64) % 64), 128 + (c % 64)>>
    ELSE <<240 + (c \div 262144), 128 + ((c \div 4096) % 64),
           128 + ((c \div 64) % 64), 128 + (c % 64)>>

RECURSIVE PercentEncoded(_)
PercentEncoded(bytes) ==
    IF bytes = <<>> THEN <<>>
    ELSE <<37, UpperHex(Head(bytes) \div 16), UpperHex(Head(bytes) % 16)>>
         \o PercentEncoded(Tail(bytes))

IsAsciiLetter(c) == c \in 65..90 \/ c \in 97..122
IsDigit(c) == c \in 48..57

\* the call encode(<<c>>) has returned
Returned(enc, c) == pc = "done" /\ encoder = enc /\ input = <<c>>

\* the chars of a mode's rule array
RuleChars(m) == {JsRules(m)[i].ch : i \in DOMAIN JsRules(m)}

----------------------------------------------------------------------------
(* C1 *)

\* C1: every encode call, of any of the three encoders in any mode and policy,
\* never panics on a table index, consumes exactly one input char per loop
\* iteration (idx only ever advances by one and never passes the end of the
\* input, so the loop runs at most Len(input) times), and returns only after
\* every char was consumed.
C1_EncodeTotal ==
    /\ [](pc # "panic")
    /\ [](idx \in 1..(Len(input) + 1))
    /\ [](pc = "done" => idx = Len(input) + 1)
    /\ [][pc = "loop" =>
            /\ input' = input
            /\ \/ pc' = "loop" /\ idx' = idx + 1 /\ idx <= Len(input)
               \/ pc' = "done" /\ idx' = idx /\ idx = Len(input) + 1]_vars

C1_Witness ==
    /\ pc = "done" /\ encoder = "uri" /\ input = <<255, 8232>>
    /\ idx = 3 /\ Len(output) = 15

----------------------------------------------------------------------------
(* C2 *)

\* C2: with escape lead '\', in every JavaScript mode and policy, a lone
\* U+0008 encodes to \b, tab to \t, LF to \n, FF to \f, CR to \r, NUL to \x00,
\* U+2028 to backslash-u-2028, U+2029 to backslash-u-2029, and an ASCII
\* letter to itself.
C2_JsFixedEscapes ==
    (pc = "done" /\ encoder = "js" /\ escape_char = 92 /\ Len(input) = 1) =>
        /\ input[1] = 8 => output = <<92, 98>>
        /\ input[1] = 9 => output = <<92, 116>>
        /\ input[1] = 10 => output = <<92, 110>>
        /\ input[1] = 12 => output = <<92, 102>>
        /\ input[1] = 13 => output = <<92, 114>>
        /\ input[1] = 0 => output = <<92, 120, 48, 48>>
        /\ input[1] = 8232 => output = <<92, 117, 50, 48, 50, 56>>
        /\ input[1] = 8233 => output = <<92, 117, 50, 48, 50, 57>>
        /\ IsAsciiLetter(input[1]) => output = input

C2_Witness ==
    /\ Returned("js", 8233) /\ escape_char = 92 /\ mode = "Attribute"
    /\ ascii_properties = "NoRestrict" /\ output = <<92, 117, 50, 48, 50, 57>>

----------------------------------------------------------------------------
(* C3 *)

\* C3: with escape lead '\', under every policy, a lone " or ' encodes to
\* backslash + the quote in Source and Block modes, and to \x22 / \x27 in
\* Html and Attribute modes.
C3_JsQuotes ==
    \A q \in {34, 39} :
        (Returned("js", q) /\ escape_char = 92) =>
            /\ mode \in {"Source", "Block"} => output = <<92, q>>
            /\ mode \in {"Html", "Attribute"} => output = HexEscape(92, q)

C3_Witness ==
    /\ Returned("js", 39) /\ escape_char = 92 /\ mode = "Html"
    /\ ascii_properties = "ASCIIExtended" /\ output = <<92, 120, 50, 55>>

----------------------------------------------------------------------------
(* C4 *)

\* C4: with escape lead '\', under every policy, a lone '/' or '-' encodes to
\* backslash + the char in Block and Html modes and to itself in Source and
\* Attribute modes.
C4_JsSlashDash ==
    \A c \in {47, 45} :
        (Returned("js", c) /\ escape_char = 92) =>
            /\ mode \in {"Block", "Html"} => output = <<92, c>>
            /\ mode \in {"Source", "Attribute"} => output = <<c>>

C4_Witness ==
    /\ Returned("js", 45) /\ escape_char = 92 /\ mode = "Block"
    /\ ascii_properties = "ASCII" /\ output = <<92, 45>>

----------------------------------------------------------------------------
(* C5 *)

\* C5 as stated: '&' is escaped in Block, Html and Attribute modes and is
\* emitted unchanged in Source mode.
C5_AmpUnescapedInSource ==
    Returned("js", 38) =>
        /\ mode = "Source" => output = <<38>>
        /\ mode # "Source" => output # <<38>>

\* C5 (amended): under every policy '&' is escaped in all four modes: as the
\* hex escape lead x26 in Source mode, and as the simple escape lead & in
\* Block, Html and Attribute modes.
C5_AmpEscapedEverywhere ==
    Returned("js", 38) =>
        /\ mode = "Source" => output = HexEscape(escape_char, 38)
        /\ mode # "Source" => output = <<escape_char, 38>>

C5_Witness ==
    /\ Returned("js", 38) /\ mode = "Source" /\ escape_char = 92
    /\ output = <<92, 120, 50, 54>>

----------------------------------------------------------------------------
(* C6 *)

\* C6: for a lone char c that no rule of the mode names, NoRestrict emits c;
\* AsciiExtended emits c if c <= 0xFF and otherwise lead 'u' + 4 lower-case hex
\* digits; AsciiOnly emits c if c < 127, lead 'x' + the 2 lower-case hex digits
\* of c if 127 <= c <= 0xFF, and lead 'u' + 4 lower-case hex digits above 0xFF.
\* Up to U+FFFF the 4 digits are those of c.
C6_JsAsciiPolicy ==
    (pc = "done" /\ encoder = "js" /\ Len(input) = 1
        /\ input[1] \notin RuleChars(mode)) =>
        LET c == input[1]
            IsUnicodeEscape ==
                /\ Len(output) = 6
                /\ output[1] = escape_char /\ output[2] = 117
                /\ \A i \in 3..6 : output[i] \in LowerHexDigits
                /\ c <= 65535 => output = UnicodeEscape(escape_char, c)
        IN  /\ ascii_properties = "NoRestrict" => output = <<c>>
            /\ ascii_properties = "ASCIIExtended" =>
                  IF c <= 255 THEN output = <<c>> ELSE IsUnicodeEscape
            /\ ascii_properties = "ASCII" =>
                  IF c < 127 THEN output = <<c>>
                  ELSE IF c <= 255 THEN output = HexEscape(escape_char, c)
                  ELSE IsUnicodeEscape

C6_Witness ==
    /\ Returned("js", 127) /\ ascii_properties = "ASCII" /\ escape_char = 92
    /\ 127 \notin RuleChars(mode) /\ output = <<92, 120, 55, 102>>

----------------------------------------------------------------------------
(* C7 *)

\* C7: under the AsciiOnly policy with escape lead '\', in every JavaScript
\* mode, every char pushed to the output is below 127.
C7_JsAsciiOnlyClean ==
    (encoder = "js" /\ ascii_properties = "ASCII" /\ escape_char = 92) =>
        \A i \in DOMAIN output : output[i] < 127

C7_Witness ==
    /\ pc = "done" /\ encoder = "js" /\ ascii_properties = "ASCII"
    /\ escape_char = 92 /\ input = <<255, 8232>>
    /\ Len(output) = 10

----------------------------------------------------------------------------
(* C8 *)

\* the raw chars no JavaScript mode lets through: NUL BS TAB LF FF CR U+2028 U+2029
JsForbidden == {0, 8, 9, 10, 12, 13, 8232, 8233}

\* C8: with escape lead '\', in every JavaScript mode and policy, the output
\* holds none of NUL, U+0008, tab, LF, FF, CR, U+2028, U+2029; in Html and
\* Attribute modes it holds no " and no '; in Source and Block modes every " and
\* ' of the output directly follows a backslash; in Block and Html modes every /
\* of the output directly follows a backslash, so "</" never occurs.
C8_JsForbiddenEscaped ==
    (encoder = "js" /\ escape_char = 92) =>
        \A i \in DOMAIN output :
            /\ output[i] \notin JsForbidden
            /\ (mode \in {"Html", "Attribute"}) => output[i] \notin {34, 39}
            /\ (mode \in {"Source", "Block"} /\ output[i] \in {34, 39}) =>
                  (i > 1 /\ output[i - 1] = 92)
            /\ (mode \in {"Block", "Html"} /\ output[i] = 47) =>
                  (i > 1 /\ output[i - 1] = 92)
            /\ (mode \in {"Block", "Html"} /\ i > 1 /\ output[i - 1] = 60) =>
                  output[i] # 47

C8_Witness ==
    /\ pc = "done" /\ encoder = "js" /\ escape_char = 92 /\ mode = "Block"
    /\ input = <<60, 47>> /\ output = <<60, 92, 47>>

----------------------------------------------------------------------------
(* C9 *)

\* C9: in both URI modes a lone scalar value above 127 encodes to its canonical
\* UTF-8 bytes (2 up to U+07FF, 3 up to U+FFFF, 4 above), each as '%' and two
\* upper-case hex digits.
C9_UriUtf8 ==
    (pc = "done" /\ encoder = "uri" /\ Len(input) = 1 /\ input[1] > 127) =>
        /\ output = PercentEncoded(Utf8Bytes(input[1]))
        /\ Len(output) = 3 * (IF input[1] <= 2047 THEN 2
                              ELSE IF input[1] <= 65535 THEN 3 ELSE 4)

C9_Witness ==
    /\ Returned("uri", 2048) /\ mode = "Component"
    /\ output = <<37, 69, 48, 37, 65, 48, 37, 56, 48>>

----------------------------------------------------------------------------
(* C10 *)

\* RFC 3986 unreserved: digit, ASCII letter, - . _ ~
UriUnreserved(c) == IsDigit(c) \/ IsAsciiLetter(c) \/ c \in {45, 46, 95, 126}

\* ! # $ & ' ( ) * + , : ; = / ? @ [ ]
UriReserved == {33, 35, 36, 38, 39, 40, 41, 42, 43, 44, 58, 59, 61, 47, 63, 64, 91, 93}

UriKept(m, c) == UriUnreserved(c) \/ (m = "FullUri" /\ c \in UriReserved)

\* C10: a lone code point 0..127 is emitted unchanged iff it is unreserved or,
\* in FullUri mode only, one of the reserved chars; every other code point
\* 0..127 becomes '%' + its two upper-case hex digits; and any input made only
\* of the mode's kept chars is returned verbatim.
C10_UriAscii ==
    (pc = "done" /\ encoder = "uri") =>
        /\ (Len(input) = 1 /\ input[1] <= 127) =>
              /\ (output = input) <=> UriKept(mode, input[1])
              /\ ~UriKept(mode, input[1]) =>
                    output = <<37, UpperHex(input[1] \div 16), UpperHex(input[1] % 16)>>
        /\ (\A i \in DOMAIN input : UriKept(mode, input[i])) => output = input

C10_Witness ==
    /\ pc = "done" /\ encoder = "uri" /\ mode = "FullUri"
    /\ input = <<47, 38>> /\ output = <<47, 38>>

----------------------------------------------------------------------------
(* C11 *)

\* what the XML modes are to give for a printable ASCII char
XmlExpected(m, c) ==
    CASE c = 38 -> <<38, 97, 109, 112, 59>>
      [] c = 60 -> <<38, 108, 116, 59>>
      [] c = 62 /\ m \in {"All", "Content"} -> <<38, 103, 116, 59>>
      [] c = 39 /\ m \in {"All", "Attribute", "SingleQuotedAttribute"} ->
            <<38, 35, 51, 57, 59>>
      [] c = 34 /\ m \in {"All", "Attribute", "DoubleQuotedAttribute"} ->
            <<38, 35, 51, 52, 59>>
      [] OTHER -> <<c>>

\* C11: a lone & gives &amp; and < gives &lt; in all five XML modes; > gives
\* &gt; only in All and Content; ' gives &#39; only in All, Attribute and
\* SingleQuotedAttribute; " gives &#34; only in All, Attribute and
\* DoubleQuotedAttribute; every other code point of 0x20..0x7E, and these five
\* where not substituted, is emitted unchanged.
C11_XmlEntities ==
    (pc = "done" /\ encoder = "xml" /\ Len(input) = 1 /\ input[1] \in 32..126) =>
        output = XmlExpected(mode, input[1])

C11_Witness ==
    /\ Returned("xml", 62) /\ mode = "Content" /\ output = <<38, 103, 116, 59>>

----------------------------------------------------------------------------
(* C12 *)

\* C12 as stated: every code point of 0x00..0x1F other than tab, LF, FF and CR
\* gives the placeholder ' ', and tab, LF, FF and CR are emitted unchanged.
C12_XmlControlsKeepFF ==
    (pc = "done" /\ encoder = "xml" /\ Len(input) = 1 /\ input[1] \in 0..31) =>
        IF input[1] \in {9, 10, 12, 13} THEN output = input ELSE output = <<32>>

\* C12 (amended): in every XML mode every code point of 0x00..0x1F other than
\* tab, LF and CR gives the placeholder ' ' (NUL and FF included), and tab, LF
\* and CR are emitted unchanged.
C12_XmlControls ==
    (pc = "done" /\ encoder = "xml" /\ Len(input) = 1 /\ input[1] \in 0..31) =>
        IF input[1] \in {9, 10, 13} THEN output = input ELSE output = <<32>>

C12_Witness ==
    /\ Returned("xml", 12) /\ mode = "Attribute" /\ output = <<32>>

----------------------------------------------------------------------------
(* C13 *)

\* C13: in every XML mode a lone code point above U+FFFD or within
\* U+FDD0..U+FDEF gives the placeholder ' ', and U+FFFD and every other code
\* point of 0x7F..0xFFFD is emitted unchanged.
C13_XmlNonCharacters ==
    (pc = "done" /\ encoder = "xml" /\ Len(input) = 1 /\ input[1] >= 127) =>
        IF input[1] > 65533 \/ input[1] \in 64976..65007
        THEN output = <<32>>
        ELSE output = input

C13_Witness ==
    /\ Returned("xml", 65533) /\ mode = "DoubleQuotedAttribute"
    /\ output = <<65533>>

----------------------------------------------------------------------------
(* C14 *)

\* the five entities of XmlEncoder::encode
XmlEntities ==
    {<<38, 97, 109, 112, 59>>, <<38, 108, 116, 59>>, <<38, 103, 116, 59>>,
     <<38, 35, 51, 57, 59>>, <<38, 35, 51, 52, 59>>}

\* o has no < > ' " and each & of o starts one of the five entities
MarkupFree(o) ==
    \A i \in 1..Len(o) :
        /\ o[i] \notin {60, 62, 39, 34}
        /\ o[i] = 38 =>
             \E e \in XmlEntities :
                /\ i + Len(e) - 1 <= Len(o)
                /\ SubSeq(o, i, i + Len(e) - 1) = e

\* C14: in XML All mode the String returned by encode(s), and the String
\* returned by encoding that String again, contain no < > ' " and every &
\* in them is the first char of one of &amp; &lt; &gt; &#39; &#34;.
C14_XmlReencodeSafe ==
    (pc = "done" /\ encoder = "xml" /\ mode = "All") => MarkupFree(output)

C14_Witness ==
    /\ pc = "done" /\ encoder = "xml" /\ mode = "All" /\ calls = 2
    /\ input = <<38, 108, 116, 59, 38, 97, 109, 112, 59>>
    /\ output = <<38, 97, 109, 112, 59, 108, 116, 59,
                  38, 97, 109, 112, 59, 97, 109, 112, 59>>

----------------------------------------------------------------------------
(* C15 *)

\* what a call returns when it runs alone: the loop bodies' pushes in order
RECURSIVE EncodeAlone(_)
EncodeAlone(s) ==
    IF s = <<>> THEN <<>> ELSE EncodeChar(Head(s)) \o EncodeAlone(Tail(s))

\* C15: with two encode calls interleaved char by char on one encoder, each
\* call returns the String it returns when run alone, each call's steps leave
\* the other call's input, position and output as they were, and no step
\* changes the compiled rules, the mask tables, the escape lead or the policy.
C15_ConcurrentCalls ==
    /\ [](pc = "done" => output = EncodeAlone(input))
    /\ [](pc2 = "done" => output2 = EncodeAlone(input2))
    /\ [][/\ config' = config
          /\ rule_array' = rule_array
          /\ (<<input, idx, output, pc>> # <<input, idx, output, pc>>'
                => caller2' = caller2)
          /\ (caller2' # caller2
                => <<input, idx, output, pc>>' = <<input, idx, output, pc>>)]_vars

\* both calls have returned, the second having started and finished while the
\* first was in the middle of its input
C15_Witness ==
    /\ pc = "done" /\ pc2 = "done" /\ encoder = "js" /\ mode = "Html"
    /\ escape_char = 92 /\ ascii_properties = "ASCII"
    /\ input = <<38, 255>> /\ output = <<92, 38, 92, 120, 102, 102>>
    /\ input2 = <<255, 38>> /\ output2 = <<92, 120, 102, 102, 92, 38>>

----------------------------------------------------------------------------
(* Notions for the properties of compile_encoder_rules *)

\* compile_encoder_rules has returned its artifact
Compiled == encoder = "custom" /\ pc \in {"idle", "loop", "done"}

RuleIndices == 1..Len(rule_array)

BadRange(r) == r.kind = "Range" /\ r.start_character >= r.end_character

\* r targets c, the end of a Range taken as exclusive
Targets(r, c) ==
    IF r.kind = "Range"
    THEN r.start_character <= c /\ c < r.end_character /\ c \notin r.exclude
    ELSE c = r.ch

\* r targets c, the end of a Range taken as inclusive
TargetsInclusive(r, c) ==
    IF r.kind = "Range"
    THEN r.start_character <= c /\ c <= r.end_character /\ c \notin r.exclude
    ELSE c = r.ch

\* the map an action of this tag is recorded in
MapOf(tag) == IF tag = "Esc" THEN rules.encode_map ELSE rules.replace_map

\* what an entry of a rule of this type holds
EntryOf(rt) ==
    IF rt.tag = "Esc"
    THEN [min_len |-> rt.min, simple_escape |-> rt.simple]
    ELSE rt.str

AllOnes == [b \in 0..7 |-> 0..31]

BitCleared(c) == rules.valid_ascii_mask[c \div 32] \cap {c % 32} = {}

----------------------------------------------------------------------------
(* C16 *)

----------------------------------------------------------------------------
(* C17 *)

\* C17 as stated: after the compile every char c of a Range rule with
\* start <= c <= end that is not excluded, the end char included, has an entry
\* in the map of the rule's action, and every entry of a map belongs to a char
\* some rule of that action targets under this reading.
C17_RangeEndInclusive ==
    Compiled =>
        /\ \A i \in RuleIndices :
              rule_array[i].kind = "Range" =>
                 \A c \in rule_array[i].start_character..rule_array[i].end_character :
                    TargetsInclusive(rule_array[i], c) =>
                        c \in DOMAIN MapOf(rule_array[i].rt.tag)
        /\ \A tag \in {"Esc", "Sub"} :
              \A c \in DOMAIN MapOf(tag) :
                 \E i \in RuleIndices :
                    rule_array[i].rt.tag = tag /\ TargetsInclusive(rule_array[i], c)

\* C17 (amended): after the compile every char c of a Range rule with
\* start <= c < end that is not excluded has an entry in the map of the rule's
\* action (encode_map for Esc, replace_map for Sub); the end char itself gets
\* none from the rule; every entry of a map belongs to a char that some rule
\* of that action targets under this half-open reading, and holds the value
\* of the last such rule of the array.
C17_RangeEndExclusive ==
    Compiled =>
        /\ \A i \in RuleIndices :
              rule_array[i].kind = "Range" =>
                 \A c \in rule_array[i].start_character..rule_array[i].end_character :
                    Targets(rule_array[i], c) =>
                        c \in DOMAIN MapOf(rule_array[i].rt.tag)
        /\ \A tag \in {"Esc", "Sub"} :
              \A c \in DOMAIN MapOf(tag) :
                 \E i \in RuleIndices :
                    /\ rule_array[i].rt.tag = tag
                    /\ Targets(rule_array[i], c)
                    /\ MapOf(tag)[c] = EntryOf(rule_array[i].rt)
                    /\ \A j \in (i + 1)..Len(rule_array) :
                          ~(rule_array[j].rt.tag = tag /\ Targets(rule_array[j], c))

C17_Witness ==
    /\ Compiled
    /\ rule_array = <<Range(97, 100, {98}, Sub(<<45>>))>>
    /\ DOMAIN rules.replace_map = {97, 99}
    /\ DOMAIN rules.encode_map = {}

----------------------------------------------------------------------------
(* C18 *)

\* some rule of this action targets c
Targeted(tag, c) ==
    \E i \in RuleIndices : rule_array[i].rt.tag = tag /\ Targets(rule_array[i], c)

\* C18: after the compile every char below 256 that a Uni rule or a Range
\* rule of any extent targets has its valid_ascii_mask bit cleared and an
\* entry in the map of the rule's action, and encode of such a char that only
\* Esc rules target returns its escape, never the char itself.
C18_LowCharsMasked ==
    /\ Compiled =>
          \A i \in RuleIndices :
             \A c \in 0..255 :
                Targets(rule_array[i], c) =>
                    /\ BitCleared(c)
                    /\ c \in DOMAIN MapOf(rule_array[i].rt.tag)
    /\ (Compiled /\ pc = "done" /\ Len(input) = 1 /\ input[1] < 256
          /\ Targeted("Esc", input[1]) /\ ~Targeted("Sub", input[1])) =>
          output \in {<<escape_char, input[1]>>, HexEscape(escape_char, input[1])}

\* the Range from 'c' to U+0101 is compiled and encode("c") returns "c"
C18_Witness ==
    /\ Compiled /\ pc = "done" /\ ascii_properties = "ASCII"
    /\ rule_array = <<Range(99, 257, {}, Esc(FALSE, TRUE))>>
    /\ 99 \in DOMAIN rules.encode_map
    /\ ~BitCleared(99)
    /\ input = <<99>> /\ output = <<99>>

----------------------------------------------------------------------------
(* C19 *)

\* every char the rule names is at or above 256
HighRule(r) ==
    IF r.kind = "Range"
    THEN r.start_character >= 256 /\ r.start_character < r.end_character
    ELSE r.ch >= 256

\* C19: when every rule of the array names only chars at or above 256,
\* U+0100 included, the compile completes, every targeted char has an entry
\* in the map of its rule's action and all 256 bits of valid_ascii_mask are
\* still set.
C19_HighCharsCompile ==
    (encoder = "custom" /\ pc # "new"
       /\ \A i \in RuleIndices : HighRule(rule_array[i])) =>
          /\ pc # "panic"
          /\ rules # Uncompiled
          /\ rules.valid_ascii_mask = AllOnes
          /\ \A i \in RuleIndices :
                \A c \in rule_array[i].start_character..rule_array[i].end_character :
                   Targets(rule_array[i], c) =>
                       c \in DOMAIN MapOf(rule_array[i].rt.tag)

\* the Uni rule for U+0100 stops the compile on the mask index
C19_Witness ==
    /\ encoder = "custom" /\ pc = "panic" /\ panic_msg = "index out of bounds"
    /\ rules = Uncompiled
    /\ rule_array = <<Uni(256, Esc(FALSE, FALSE))>>

----------------------------------------------------------------------------
(* C20 *)

\* C20: in the artifact of the compile no char is a key of more than one of
\* encode_map, replace_map and the invalid set.
C20_MapsDisjoint ==
    Compiled =>
        /\ DOMAIN rules.encode_map \cap DOMAIN rules.replace_map = {}
        /\ DOMAIN rules.encode_map \cap rules.invalid_set = {}
        /\ DOMAIN rules.replace_map \cap rules.invalid_set = {}

\* 'a' is a key of both maps after an Esc rule and a Sub rule for it
C20_Witness ==
    /\ Compiled
    /\ rule_array = <<Uni(97, Esc(FALSE, TRUE)), Uni(97, Sub(<<65>>))>>
    /\ 97 \in DOMAIN rules.encode_map
    /\ 97 \in DOMAIN rules.replace_map

----------------------------------------------------------------------------
(* C21 *)

\* an Esc rule and a Sub rule of the array both target c
Conflict(c) == Targeted("Esc", c) /\ Targeted("Sub", c)

\* the last rule of the array that targets c
LastRule(c) ==
    rule_array[CHOOSE i \in RuleIndices :
                  /\ Targets(rule_array[i], c)
                  /\ \A j \in (i + 1)..Len(rule_array) : ~Targets(rule_array[j], c)]

\* what the action rt dictates for c
Dictated(rt, c) ==
    IF rt.tag = "Sub" THEN rt.str
    ELSE IF rt.simple THEN <<escape_char, c>>
    ELSE IF c <= 255 THEN HexEscape(escape_char, c)
    ELSE UnicodeEscape(escape_char, c)

\* C21: when an Esc rule and a Sub rule of the array target the same char,
\* below 256 or not, encode of that char returns what the later of the rules
\* dictates, with the trait's encode and with JavaScriptEncoder's loop body on
\* the same artifact.
C21_LastWriterWins ==
    Compiled =>
        \A c \in CompileChars :
            Conflict(c) =>
                /\ (pc = "done" /\ input = <<c>>) =>
                       output = Dictated(LastRule(c).rt, c)
                /\ JsEncodeChar(c) = Dictated(LastRule(c).rt, c)

\* Esc then Sub for 'a': encode("a") returns the escape of the earlier rule
C21_Witness ==
    /\ Compiled /\ pc = "done"
    /\ rule_array = <<Uni(97, Esc(FALSE, TRUE)), Uni(97, Sub(<<65>>))>>
    /\ input = <<97>> /\ output = <<92, 97>>
    /\ JsEncodeChar(97) = <<92, 97>>

\* Sub then Esc for U+0101: the substitution of the earlier rule is returned
C21_WitnessHigh ==
    /\ Compiled /\ pc = "done"
    /\ rule_array = <<Uni(257, Sub(<<63, 63>>)), Range(256, 259, {}, Esc(FALSE, TRUE))>>
    /\ input = <<257>> /\ output = <<63, 63>>
    /\ JsEncodeChar(257) = <<63, 63>>

----------------------------------------------------------------------------
(* C22 *)

\* c has an Esc rule with simple = true in the encoder's artifact
SimpleEscaped(c) ==
    c \in DOMAIN rules.encode_map /\ rules.encode_map[c].simple_escape

----------------------------------------------------------------------------
(* C23 *)

\* C23 as stated: for each of the three encoders, when the call returns, the
\* capacity its output String was created with is at least the byte length
\* of the String returned.
C23_NeverUnderAllocated ==
    (pc = "done" /\ encoder \in {"js", "uri", "xml"}) =>
        init_capacity >= StrLen(output)

\* C23 (amended): for UriEncoder and XmlEncoder the capacity the output
\* String is created with, 9 times and 5 times the byte length of the input,
\* is at least the byte length of the String returned; for JavaScriptEncoder
\* it is output_buffer_max_len times the byte length of the input, which the
\* returned String may exceed.
C23_UriXmlReserveEnough ==
    (pc = "done") =>
        /\ encoder \in {"uri", "xml"} => init_capacity >= StrLen(output)
        /\ encoder = "js" =>
              init_capacity = rules.output_buffer_max_len * StrLen(input)

\* XML All: encode("&") has 5 bytes and 5 were reserved
C23_Witness ==
    /\ Returned("xml", 38) /\ mode = "All"
    /\ StrLen(output) = 5 /\ init_capacity = 5

\* JavaScript Html: encode of a quote has 4 bytes and 2 were reserved
C23_WitnessJs ==
    /\ Returned("js", 34) /\ mode = "Html"
    /\ StrLen(output) = 4 /\ init_capacity = 2

----------------------------------------------------------------------------
(* C24 *)

\* the keys of the maps and the set of the artifact
Recorded ==
    DOMAIN rules.encode_map \cup DOMAIN rules.replace_map \cup rules.invalid_set

\* C24: in the artifact of the compile every code point below 256 whose
\* valid_ascii_mask bit is clear is a key of a map or of the invalid set, and
\* every code point below 256 that no rule targets has its bit set; so the
\* loop body never meets a cleared bit without a recorded rule.  (Stated of
\* the state the compile returns in; no later step changes the artifact.)
C24_ClearedBitsRecorded ==
    (Compiled /\ pc = "idle") =>
        \A c \in 0..255 :
            /\ BitCleared(c) => c \in Recorded
            /\ (~Targeted("Esc", c) /\ ~Targeted("Sub", c)) => ~BitCleared(c)

\* a Range with an excluded char: its chars have cleared bits and entries,
\* the excluded char and the end char keep their bits
C24_Witness ==
    /\ Compiled
    /\ rule_array = <<Range(97, 100, {98}, Sub(<<45>>))>>
    /\ BitCleared(97) /\ BitCleared(99) /\ {97, 99} \subseteq Recorded
    /\ ~BitCleared(98) /\ ~BitCleared(100)

----------------------------------------------------------------------------
(* C25 *)

\* C25: JavaScriptEncoder::encode of a lone char below 256 whose mask bit is
\* clear and which is in neither map nor in the invalid set does not take
\* the pass-through of a set bit but the policy step: under ASCII it returns
\* the lead, 'x' and the two hex digits of the char, also for a char below
\* 127; under ASCIIExtended and NoRestrict it returns the char.
C25_GapFallsToPolicy ==
    (pc = "done" /\ encoder = "js" /\ Len(input) = 1 /\ input[1] < 256
       /\ BitCleared(input[1]) /\ input[1] \notin Recorded) =>
          IF ascii_properties = "ASCII"
          THEN output = HexEscape(escape_char, input[1])
          ELSE output = input

\* 'a' with its bit cleared by hand gives \x61 under ASCII
C25_Witness ==
    /\ Returned("js", 97) /\ mode = "Html" /\ ascii_properties = "ASCII"
    /\ escape_char = 92
    /\ BitCleared(97) /\ 97 \notin Recorded
    /\ output = <<92, 120, 54, 49>>

----------------------------------------------------------------------------
(* C26 *)

\* the greatest element of a non-empty set of numbers
MaxOf(S) == CHOOSE m \in S : \A x \in S : x <= m

\* r targets at least one char
TargetsSome(r) ==
    \E c \in r.start_character..r.end_character : Targets(r, c)

\* the byte lengths of the replacement strings of all Sub rules of the array
AllSubLens ==
    {StrLen(rule_array[i].rt.str) : i \in {j \in RuleIndices : rule_array[j].rt.tag = "Sub"}}

\* the byte lengths of those of the Sub rules that target at least one char
ActingSubLens ==
    {StrLen(rule_array[i].rt.str) :
        i \in {j \in RuleIndices :
                 rule_array[j].rt.tag = "Sub" /\ TargetsSome(rule_array[j])}}

\* C26 as stated: output_buffer_max_len of the artifact is the maximum of 1
\* and the byte lengths of the replacement strings of all Sub rules of the
\* array.
C26_MaxOverAllSubRules ==
    (Compiled /\ pc = "idle") =>
        rules.output_buffer_max_len = MaxOf(AllSubLens \cup {1})

\* C26 (amended): output_buffer_max_len of the artifact is the maximum of 1
\* and the byte lengths of the replacement strings of the Sub rules that
\* target at least one char (a Range whose chars are all excluded adds
\* nothing); it is at least 1 and at least the byte length of every string
\* stored in replace_map.
C26_MaxOverActingSubRules ==
    (Compiled /\ pc = "idle") =>
        /\ rules.output_buffer_max_len = MaxOf(ActingSubLens \cup {1})
        /\ rules.output_buffer_max_len >= 1
        /\ \A c \in DOMAIN rules.replace_map :
              rules.output_buffer_max_len >= StrLen(rules.replace_map[c])

\* a substitution of two bytes for U+0101 alone in the array
C26_Witness ==
    /\ Compiled /\ pc = "idle"
    /\ rule_array = <<Uni(257, Sub(<<63, 63>>))>>
    /\ rules.output_buffer_max_len = 2

\* the Range whose only char is excluded leaves the maximum at 1
C26_WitnessExcluded ==
    /\ Compiled /\ pc = "idle"
    /\ rule_array = <<Range(98, 99, {98}, Sub(<<233, 45, 45>>))>>
    /\ rules.output_buffer_max_len = 1

----------------------------------------------------------------------------
(* C27 *)

\* C27: the capacity JavaScriptEncoder::encode creates its output with is
\* the lesser of output_buffer_max_len times the byte length of the input
\* and the cap u16::MAX / 2 = 32767, for every length; so it is the cap when
\* the product is at least the cap, and no shorter input gets a greater one.
C27_JsCapacityIsCappedProduct ==
    (pc = "reserved") =>
        /\ init_capacity = Min(rules.output_buffer_max_len * input_len, U16_MAX_HALF)
        /\ \A n \in LenSample :
              n <= input_len =>
                 JsInitCapacity(rules.output_buffer_max_len, n) <= init_capacity

\* an input of 32768 bytes: the product 65536 is cast to 0 and nothing is reserved
C27_Witness ==
    /\ pc = "reserved" /\ encoder = "js"
    /\ rules.output_buffer_max_len = 2
    /\ input_len = 32768
    /\ init_capacity = 0

----------------------------------------------------------------------------
(* C28 *)

\* no rule of the array targets c and the artifact records nothing for it
RuleLess(c) ==
    /\ ~Targeted("Esc", c) /\ ~Targeted("Sub", c)
    /\ c \notin Recorded
    /\ c < 256 => ~BitCleared(c)

\* C28: under ASCIIExtended the trait's encode returns a lone char without a
\* rule unchanged when the char is at most U+00FF, and returns the lead, 'u'
\* and the four hex digits of the char when it is above U+00FF.
C28_DefaultAsciiExtended ==
    (Compiled /\ pc = "done" /\ ascii_properties = "ASCIIExtended"
       /\ Len(input) = 1 /\ RuleLess(input[1])) =>
          IF input[1] <= 255
          THEN output = input
          ELSE output = UnicodeEscape(escape_char, input[1])

\* with no rules at all the backtick comes back as \x60
C28_Witness ==
    /\ Compiled /\ pc = "done" /\ ascii_properties = "ASCIIExtended"
    /\ rule_array = <<>>
    /\ input = <<96>> /\ output = <<92, 120, 54, 48>>

----------------------------------------------------------------------------
(* C29 *)

\* C29: for each of the three encoders, what a call has pushed after the
\* first n chars of its input is, for every split of those n chars into a
\* and b, encode(a) followed by encode(b); the call on the empty input
\* returns the empty String.
C29_Concatenation ==
    /\ (encoder \in {"js", "uri", "xml"} /\ pc \in {"loop", "done"}) =>
          \A k \in 0..(idx - 1) :
             output = EncodeAlone(SubSeq(input, 1, k))
                         \o EncodeAlone(SubSeq(input, k + 1, idx - 1))
    /\ (pc = "done" /\ input = <<>>) => output = <<>>

\* Html: encode("&&") is encode("&") twice
C29_Witness ==
    /\ pc = "done" /\ encoder = "js" /\ mode = "Html" /\ escape_char = 92
    /\ input = <<38, 38>>
    /\ output = <<92, 38, 92, 38>>

----------------------------------------------------------------------------
(* C30 *)

\* C30: under ASCII, in every JavaScript mode, the String returned for a
\* lone char is returned for no other lone char, chars above U+FFFF
\* included.
C30_AsciiOnlyInjective ==
    (pc = "done" /\ encoder = "js" /\ ascii_properties = "ASCII"
       /\ Len(input) = 1) =>
          \A c \in CharSample \ {input[1]} : JsEncodeChar(c) # output

\* U+1FFFF is returned as lead, 'u', ffff, which is also what U+FFFF is
\* returned as
C30_Witness ==
    /\ Returned("js", 131071) /\ ascii_properties = "ASCII" /\ escape_char = 92
    /\ output = <<92, 117, 102, 102, 102, 102>>
    /\ JsEncodeChar(65535) = output

====
